---- MODULE Spec2Model ----
(***************************************************************************)
(* Expense tracker: the JSON-backed StorageHandler (expenses and budgets   *)
(* documents), the Expense and Budget entities with their validation, and  *)
(* the ExpenseManager that orchestrates them and computes budget warnings. *)
(*                                                                         *)
(* Modelling conventions                                                   *)
(*   - a Python str of characters is a sequence of one-character strings;  *)
(*   - a Decimal is an integer number of currency units (Decimal is exact);*)
(*   - str(Decimal) is the record [str |-> d]; it is a different value     *)
(*     from the Decimal d, and Decimal(s) parses it back;                  *)
(*   - a datetime is [month, year]; isoformat() is [iso |-> date];         *)
(*   - a dict is a function whose domain is its key set;                   *)
(*   - Python None is the record None; an Optional[int] argument that is   *)
(*     given is Some(n).                                                   *)
(***************************************************************************)
EXTENDS Integers, Sequences, FiniteSets, TLC

VARIABLES
    expenses,   \* the expenses document: the JSON list of expense dicts
    budgets,    \* the budgets document: the JSON list of budget dicts
    last,       \* the most recent call: its name, arguments and outcome
    disk        \* what is at each document's path: "absent", a "valid" JSON
                \* list, or the "partial" text an interrupted write left;
                \* expenses and budgets hold the records written there

vars == <<expenses, budgets, last, disk>>

\* ---------------------------------------------------------------- bounds
\* the largest number of records the two documents hold together
MaxRecords == 3

\* ------------------------------------------------------------ primitives
None == [None |-> TRUE]
Some(n) == [some |-> n]

\* str(x) of a Decimal, and Decimal(s) of such a string
Str(d) == [str |-> d]
Decimal(s) == s.str

\* datetime.isoformat()
IsoFormat(date) == [iso |-> date]

Rep(c, n) == [i \in 1..n |-> c]

RECURSIVE SumSeq(_)
SumSeq(s) == IF s = <<>> THEN 0 ELSE Head(s) + SumSeq(Tail(s))

RECURSIVE SumDict(_)
SumDict(d) ==
    IF DOMAIN d = {} THEN 0
    ELSE LET k == CHOOSE x \in DOMAIN d : TRUE
         IN d[k] + SumDict([x \in DOMAIN d \ {k} |-> d[x]])

MaxOf(S, default) ==
    IF S = {} THEN default ELSE CHOOSE x \in S : \A y \in S : y <= x

\* str.strip(): drop leading and trailing whitespace
Whitespace == {" ", "\t", "\n"}

RECURSIVE LStrip(_)
LStrip(s) == IF s # <<>> /\ Head(s) \in Whitespace THEN LStrip(Tail(s)) ELSE s

RECURSIVE RStrip(_)
RStrip(s) ==
    IF s # <<>> /\ s[Len(s)] \in Whitespace THEN RStrip(SubSeq(s, 1, Len(s) - 1)) ELSE s

Strip(s) == RStrip(LStrip(s))

\* " ".join(parts) on a list of strings, each a sequence of tokens
Space == [text |-> " "]

RECURSIVE Join_NoSeparator(_)
Join_NoSeparator(parts) ==
    IF parts = <<>> THEN <<>> ELSE Head(parts) \o Join_NoSeparator(Tail(parts))

RECURSIVE Join(_)
Join(parts) ==
    IF parts = <<>> THEN <<>>
    ELSE IF Len(parts) = 1 THEN Head(parts)
         ELSE Head(parts) \o <<Space>> \o Join(Tail(parts))

\* ---------------------------------------------------------------- Expense
MaxDescriptionLength == 100

validiate_AtLeast(self) ==
    IF self.description = <<>> \/ Len(Strip(self.description)) = 0
    THEN "ValidationError"
    ELSE IF Len(self.description) >= MaxDescriptionLength
    THEN "ValidationError"
    ELSE IF self.amount <= 0
    THEN "ValidationError"
    ELSE IF self.category = ""
    THEN "ValidationError"
    ELSE "ok"

\* Expane.validiate: the name of the error raised, or "ok"
validiate(self) ==
    IF self.description = <<>> \/ Len(Strip(self.description)) = 0
    THEN "ValidationError"
    ELSE IF Len(self.description) > MaxDescriptionLength
    THEN "ValidationError"
    ELSE IF self.amount <= 0
    THEN "ValidationError"
    ELSE IF self.category = ""
    THEN "ValidationError"
    ELSE "ok"

\* the dataclass constructor; __post_init__ validates
Expense(description, amount, date, category) ==
    [description |-> description, amount |-> amount, date |-> date,
     category |-> category, id |-> None]

\* ----------------------------------------------------------------- Budget
Budget(month, year, amount, category_limits) ==
    [month |-> month, year |-> year, amount |-> amount,
     category_limits |-> category_limits]

\* truthiness of an Optional[dict]
Truthy(d) == d # None /\ DOMAIN d # {}

validate_NoMonthCheck(self) ==
    IF self.amount <= 0
    THEN "BudgetError"
    ELSE IF Truthy(self.category_limits)
            /\ SumDict(self.category_limits) > self.amount
    THEN "BudgetError"
    ELSE "ok"

validate_SumAtLeast(self) ==
    IF self.month < 1 \/ self.month > 12
    THEN "BudgetError"
    ELSE IF self.amount <= 0
    THEN "BudgetError"
    ELSE IF Truthy(self.category_limits)
            /\ SumDict(self.category_limits) >= self.amount
    THEN "BudgetError"
    ELSE "ok"

\* Budget.validate: the name of the error raised, or "ok"
validate(self) ==
    IF self.month < 1 \/ self.month > 12
    THEN "BudgetError"
    ELSE IF self.amount <= 0
    THEN "BudgetError"
    ELSE IF Truthy(self.category_limits)
            /\ SumDict(self.category_limits) > self.amount
    THEN "BudgetError"
    ELSE "ok"

\* ---------------------------------------------------------- StorageHandler
\* Each operator takes the list that _load_expenses / _load_budgets returned
\* (json.load of the document) and yields what the method returns or the list
\* it hands to _save_expenses / _save_budgets (json.dump over the document).

new_id_NoIncrement(loaded) == MaxOf({loaded[i].id : i \in DOMAIN loaded}, 0)

\* max([exp['id'] for exp in expenses], default=0) + 1
new_id(loaded) == MaxOf({loaded[i].id : i \in DOMAIN loaded}, 0) + 1

expense_dict_Swapped(expense, id) ==
    [id |-> id,
     date |-> IsoFormat(expense.date),
     description |-> expense.description,
     amount |-> Str(expense.amount),
     category |-> expense.description]

expense_dict(expense, id) ==
    [id |-> id,
     date |-> IsoFormat(expense.date),
     description |-> expense.description,
     amount |-> Str(expense.amount),
     category |-> expense.category]

add_expense_Prepend(loaded, expense) ==
    <<expense_dict(expense, new_id(loaded))>> \o loaded

\* StorageHandler.add_expense: the list handed to _save_expenses
add_expense(loaded, expense) == Append(loaded, expense_dict(expense, new_id(loaded)))

\* {k: str(v) for k, v in (budget.category_limits or {}).items()}
StrDict(d) == IF Truthy(d) THEN [k \in DOMAIN d |-> Str(d[k])] ELSE <<>>

budget_dict(budget) ==
    [month |-> budget.month,
     year |-> budget.year,
     amount |-> Str(budget.amount),
     category_limits |-> StrDict(budget.category_limits)]

\* [b for b in budgets if not (b['month'] == budget.month and
\*                             b['year'] == budget.year)]
WithoutPeriod(loaded, budget) ==
    LET Keep(b) == ~(b.month = budget.month /\ b.year = budget.year)
    IN SelectSeq(loaded, Keep)

\* StorageHandler.set_budget: the list handed to _save_budgets.  The filtered
\* list is bound to the local name `budget` (line 83), not to `budgets`, so
\* the list that is appended to and saved is the one that was loaded.
set_budget(loaded, budget) ==
    LET rebound == WithoutPeriod(loaded, budget)
        saved == Append(loaded, budget_dict(budget))
    IN saved

\* next((b for b in budgets if b['month'] == month and b['year'] == year), None)
FirstMatch(loaded, month, year) ==
    LET hits == {i \in DOMAIN loaded :
                    loaded[i].month = month /\ loaded[i].year = year}
    IN IF hits = {} THEN None
       ELSE loaded[CHOOSE i \in hits : \A j \in hits : i <= j]

\* StorageHandler.get_budget
get_budget(loaded, month, year) ==
    LET found == FirstMatch(loaded, month, year)
    IN IF found = None THEN None
       ELSE Budget(found.month, found.year, Decimal(found.amount),
                   IF DOMAIN found.category_limits # {}
                   THEN [k \in DOMAIN found.category_limits |->
                            Decimal(found.category_limits[k])]
                   ELSE None)

\* StorageHandler.get_all_expenses: every record deserialized, in file order
get_all_expenses(loaded) ==
    [i \in DOMAIN loaded |->
        [id |-> loaded[i].id,
         description |-> loaded[i].description,
         amount |-> Decimal(loaded[i].amount),
         date |-> loaded[i].date.iso,
         category |-> loaded[i].category]]

\* ---------------------------------------------------------- ExpenseManager
\* ExpenseManager.get_monthly_summary, year given
get_monthly_summary(loaded, month, year) ==
    LET InMonth(exp) == exp.date.month = month /\ exp.date.year = year
        monthly_expenses == SelectSeq(get_all_expenses(loaded), InMonth)
    IN SumSeq([i \in DOMAIN monthly_expenses |-> monthly_expenses[i].amount])

get_category_summary_MonthNeedsYear(loaded, category, month, year) ==
    LET Matches(exp) ==
            /\ exp.category = category
            /\ (month = None \/ exp.date.month = month.some)
            /\ IF year = None THEN month = None \/ exp.date.year = 2024
               ELSE exp.date.year = year.some
        filtered_expenses == SelectSeq(get_all_expenses(loaded), Matches)
    IN SumSeq([i \in DOMAIN filtered_expenses |-> filtered_expenses[i].amount])

\* ExpenseManager.get_category_summary; month and year are None or Some(n)
get_category_summary(loaded, category, month, year) ==
    LET Matches(exp) ==
            /\ exp.category = category
            /\ (month = None \/ exp.date.month = month.some)
            /\ (year = None \/ exp.date.year = year.some)
        filtered_expenses == SelectSeq(get_all_expenses(loaded), Matches)
    IN SumSeq([i \in DOMAIN filtered_expenses |-> filtered_expenses[i].amount])

\* f"Total budget of ${float(budget.amount):.2f} exceeded!"
TotalMessage(amount) ==
    <<[text |-> "Total budget of $ exceeded!", amount |-> amount]>>

\* f"Category '{expense.category}' budget of ${float(category_limit):.2f}"
CategoryMessage(category, category_limit) ==
    <<[text |-> "Category '' budget of $", category |-> category,
       limit |-> category_limit]>>

TotalExceeded_AtLeast(monthly_total, budget) == monthly_total >= budget.amount

TotalExceeded(monthly_total, budget) == monthly_total > budget.amount

CategoryExceeded_AtLeast(category_total, category_limit) ==
    category_total >= category_limit

CategoryExceeded(category_total, category_limit) == category_total > category_limit

HasLimit(budget, category) ==
    Truthy(budget.category_limits) /\ category \in DOMAIN budget.category_limits

\* ExpenseManager._check_budget_warning, on the documents as they are after
\* the expense was saved: None, or the warning string
check_budget_warning(loadedExpenses, loadedBudgets, expense) ==
    LET current_month == expense.date.month
        current_year == expense.date.year
        budget == get_budget(loadedBudgets, current_month, current_year)
    IN IF budget = None THEN None
       ELSE
       LET monthly_total ==
               get_monthly_summary(loadedExpenses, current_month, current_year)
           category_total ==
               get_category_summary(loadedExpenses, expense.category,
                                    Some(current_month), Some(current_year))
           total_part ==
               IF TotalExceeded(monthly_total, budget)
               THEN <<TotalMessage(budget.amount)>> ELSE <<>>
           category_part ==
               IF HasLimit(budget, expense.category)
                  /\ CategoryExceeded(category_total,
                                      budget.category_limits[expense.category])
               THEN <<CategoryMessage(expense.category,
                                      budget.category_limits[expense.category])>>
               ELSE <<>>
           warnings == total_part \o category_part
       IN IF warnings # <<>> THEN [str |-> Join(warnings)] ELSE None

\* the rows export_to_csv writes
CsvRows(loaded) ==
    LET all == get_all_expenses(loaded)
    IN [header |-> <<"ID", "Date", "Description", "Amount", "Category">>,
        rows |-> [i \in DOMAIN all |->
                    [ID |-> all[i].id, Date |-> [ymd |-> all[i].date],
                     Description |-> all[i].description,
                     Amount |-> [float |-> all[i].amount],
                     Category |-> all[i].category]]]

\* ------------------------------------------------------------ input values
Categories == {"groceries", "utilities"}

Periods ==
    {[month |-> 1, year |-> 2024], [month |-> 2, year |-> 2024],
     [month |-> 1, year |-> 2025]}

Jan2024 == [month |-> 1, year |-> 2024]

\* arguments of ExpenseManager.add_expense, with the value datetime.now()
\* returns during the call
ExpenseArgs(description, amount, category, now) ==
    [description |-> description, amount |-> amount, category |-> category,
     now |-> now]

AddExpenseInputs ==
    {ExpenseArgs(<<"a">>, a, "groceries", p) : a \in {1, 2}, p \in Periods}
    \cup {ExpenseArgs(<<"a">>, 1, "utilities", Jan2024)}
    \cup {ExpenseArgs(d, 1, "groceries", Jan2024) :
            d \in {<<>>, <<" ", " ">>, Rep("a", MaxDescriptionLength),
                   Rep("a", MaxDescriptionLength + 1)}}
    \cup {ExpenseArgs(<<"a">>, a, "groceries", Jan2024) : a \in {0, -1}}
    \cup {ExpenseArgs(<<"a">>, 1, "", Jan2024)}

\* the Expense objects that exist: those whose construction did not raise
ExpenseObjects ==
    {e \in {Expense(i.description, i.amount, i.now, i.category) :
                i \in AddExpenseInputs} : validiate(e) = "ok"}

\* budgets that pass Budget.validate
ValidBudgets ==
    {Budget(p.month, p.year, 2, None) : p \in Periods}
    \cup {Budget(1, 2024, al[1], al[2]) :
            al \in {<<2, <<>> >>, <<2, [groceries |-> 1]>>,
                    <<3, [groceries |-> 1]>>, <<2, [groceries |-> 2]>>}}

\* the Budget objects handed to StorageHandler.set_budget (constructing a
\* Budget validates nothing)
BudgetObjects ==
    ValidBudgets \cup {Budget(13, 2024, 2, None), Budget(1, 2024, 0, None)}

\* arguments of ExpenseManager.set_budget
SetBudgetInputs ==
    BudgetObjects \cup {Budget(0, 2024, 2, None), Budget(1, 2024, -1, None),
                        Budget(1, 2024, 2, [groceries |-> 3]),
                        Budget(1, 2024, 2, [groceries |-> 2, utilities |-> 1])}

OptionalMonths == {None, Some(1)}
OptionalYears == {None, Some(2024)}

\* ------------------------------------------------------------------- state
HasRoom == Len(expenses) + Len(budgets) < MaxRecords

BothValid == [expenses |-> "valid", budgets |-> "valid"]

\* StorageHandler() over two documents that exist and hold the empty list
Init ==
    /\ expenses = <<>>
    /\ budgets = <<>>
    /\ last = [op |-> "StorageHandler"]
    /\ disk = BothValid

\* ----------------------------------------------------------------- actions
\* StorageHandler.add_expense(expense)
StorageAddExpense(expense) ==
    /\ HasRoom
    /\ expenses' = add_expense(expenses, expense)
    /\ last' = [op |-> "Storage.add_expense", expense |-> expense,
                ret |-> new_id(expenses)]
    /\ UNCHANGED <<budgets, disk>>

\* StorageHandler.set_budget(budget)
StorageSetBudget(budget) ==
    /\ HasRoom
    /\ budgets' = set_budget(budgets, budget)
    /\ last' = [op |-> "Storage.set_budget", budget |-> budget]
    /\ UNCHANGED <<expenses, disk>>

\* StorageHandler.get_budget(month, year)
StorageGetBudget(month, year) ==
    /\ last' = [op |-> "Storage.get_budget", month |-> month, year |-> year,
                ret |-> get_budget(budgets, month, year)]
    /\ UNCHANGED <<expenses, budgets, disk>>

\* StorageHandler.get_all_expenses()
StorageGetAllExpenses ==
    /\ last' = [op |-> "Storage.get_all_expenses",
                ret |-> get_all_expenses(expenses)]
    /\ UNCHANGED <<expenses, budgets, disk>>

\* ExpenseManager.add_expense(description, amount, category)
ManagerAddExpense(args) ==
    LET expense == Expense(args.description, Decimal(Str(args.amount)),
                           args.now, args.category)
        saved == add_expense(expenses, expense)
    IN IF validiate(expense) # "ok"
       THEN /\ last' = [op |-> "Manager.add_expense", args |-> args,
                        raised |-> validiate(expense)]
            /\ UNCHANGED <<expenses, budgets, disk>>
       ELSE /\ HasRoom
            /\ expenses' = saved
            /\ last' = [op |-> "Manager.add_expense", args |-> args,
                        raised |-> "none",
                        expense_id |-> new_id(expenses),
                        warning |-> check_budget_warning(saved, budgets, expense)]
            /\ UNCHANGED <<budgets, disk>>

\* ExpenseManager.set_budget(month, year, amount, category_limits)
ManagerSetBudget(args) ==
    LET limits == IF Truthy(args.category_limits) THEN args.category_limits
                  ELSE <<>>
        budget == Budget(args.month, args.year, Decimal(Str(args.amount)),
                         [k \in DOMAIN limits |-> Decimal(Str(limits[k]))])
    IN IF validate(budget) # "ok"
       THEN /\ last' = [op |-> "Manager.set_budget", args |-> args,
                        raised |-> validate(budget)]
            /\ UNCHANGED <<expenses, budgets, disk>>
       ELSE /\ HasRoom
            /\ budgets' = set_budget(budgets, budget)
            /\ last' = [op |-> "Manager.set_budget", args |-> args,
                        raised |-> "none"]
            /\ UNCHANGED <<expenses, disk>>

\* ExpenseManager.get_monthly_summary(month, year); year None means the
\* current year, datetime.now().year
ManagerGetMonthlySummary(month, year, now) ==
    LET y == IF year = None THEN now.year ELSE year.some
    IN /\ last' = [op |-> "Manager.get_monthly_summary", month |-> month,
                   year |-> year, now |-> now,
                   ret |-> get_monthly_summary(expenses, month, y)]
       /\ UNCHANGED <<expenses, budgets, disk>>

\* ExpenseManager.get_category_summary(category, month, year)
ManagerGetCategorySummary(category, month, year) ==
    /\ last' = [op |-> "Manager.get_category_summary", category |-> category,
                month |-> month, year |-> year,
                ret |-> get_category_summary(expenses, category, month, year)]
    /\ UNCHANGED <<expenses, budgets, disk>>

\* ExpenseManager.export_to_csv(filepath)
ManagerExportToCsv ==
    /\ last' = [op |-> "Manager.export_to_csv", file |-> CsvRows(expenses)]
    /\ UNCHANGED <<expenses, budgets, disk>>

Next ==
    \/ \E expense \in ExpenseObjects : StorageAddExpense(expense)
    \/ \E budget \in BudgetObjects : StorageSetBudget(budget)
    \/ \E p \in Periods : StorageGetBudget(p.month, p.year)
    \/ StorageGetAllExpenses
    \/ \E args \in AddExpenseInputs : ManagerAddExpense(args)
    \/ \E args \in SetBudgetInputs : ManagerSetBudget(args)
    \/ \E p \in Periods : \E year \in {None, Some(p.year)} :
          ManagerGetMonthlySummary(p.month, year, p)
    \/ \E category \in Categories, month \in OptionalMonths,
          year \in OptionalYears :
          ManagerGetCategorySummary(category, month, year)
    \/ ManagerExportToCsv

Spec == Init /\ [][Next]_vars

\* --------------------------------------------- constructing Expense values
\* Expense(description, amount, date, category): __post_init__ runs validiate
ConstructExpense(args) ==
    /\ last' = [op |-> "Expense", args |-> args,
                raised |-> validiate(Expense(args.description, args.amount,
                                             args.now, args.category))]
    /\ UNCHANGED <<expenses, budgets, disk>>

ConstructInputs ==
    {ExpenseArgs(d, a, c, Jan2024) :
        d \in {<<>>, <<" ">>, <<" ", "\t">>, <<"a">>, <<" ", "a", " ">>,
               <<"a", " ", "b">>,
               Rep(" ", MaxDescriptionLength),
               Rep("a", MaxDescriptionLength - 1),
               Rep("a", MaxDescriptionLength),
               Rep("a", MaxDescriptionLength + 1),
               <<" ">> \o Rep("a", MaxDescriptionLength)},
        a \in {-1, 0, 1, 2},
        c \in {"", " ", "groceries"}}

NextExpense == \E args \in ConstructInputs : ConstructExpense(args)

SpecExpense == Init /\ [][NextExpense]_vars

\* ------------------------------------------------- documents and I/O faults
\* the two documents as a value the storage operations map to a new value
World == [expenses |-> expenses, budgets |-> budgets, disk |-> disk]

Raise(w, kind, at) == [w |-> w, raised |-> kind, at |-> at]

Return(w, ret) == [w |-> w, raised |-> "none", ret |-> ret]

\* how open(path, 'w') followed by json.dump can end: both succeed, open
\* fails, or the dump fails after `written` whole records
SaveOutcomes(records) ==
    {[kind |-> "ok"], [kind |-> "open_error"]}
        \cup {[kind |-> "write_error", written |-> n] : n \in 0..Len(records)}

\* _save_expenses and _save_budgets: open(path, 'w') truncates the document,
\* then json.dump writes the records to it
save(w, doc, records, io) ==
    IF io.kind = "ok"
    THEN Return([w EXCEPT ![doc] = records, !.disk[doc] = "valid"], None)
    ELSE IF io.kind = "open_error"
    THEN Raise(w, "StorageError", "save")
    ELSE Raise([w EXCEPT ![doc] = SubSeq(records, 1, io.written),
                         !.disk[doc] = "partial"],
               "StorageError", "save")

save_expenses(w, records, io) == save(w, "expenses", records, io)

save_budgets(w, records, io) == save(w, "budgets", records, io)

\* _load_expenses and _load_budgets raise unless the document is whole
Loads(w, doc) == w.disk[doc] = "valid"

\* StorageHandler._init_storage.  The call on line 23 names _save_expanses,
\* which the class does not define: the AttributeError is wrapped in a
\* StorageError before the budgets document is looked at.
init_storage(w, io) ==
    IF w.disk.expenses = "absent"
    THEN Raise(w, "StorageError", "init")
    ELSE IF w.disk.budgets = "absent"
    THEN save_budgets(w, <<>>, io)
    ELSE Return(w, None)

\* StorageHandler.add_expense with its load and its save
storage_add_expense(w, expense, io) ==
    IF ~Loads(w, "expenses")
    THEN Raise(w, "StorageError", "load")
    ELSE LET r == save_expenses(w, add_expense(w.expenses, expense), io)
         IN IF r.raised = "none" THEN Return(r.w, new_id(w.expenses)) ELSE r

\* StorageHandler.set_budget with its load and its save
storage_set_budget(w, budget, io) ==
    IF ~Loads(w, "budgets")
    THEN Raise(w, "StorageError", "load")
    ELSE save_budgets(w, set_budget(w.budgets, budget), io)

\* StorageHandler.get_budget with its load
storage_get_budget(w, month, year) ==
    IF ~Loads(w, "budgets")
    THEN Raise(w, "StorageError", "load")
    ELSE Return(w, get_budget(w.budgets, month, year))

\* StorageHandler.get_all_expenses with its load
storage_get_all_expenses(w) ==
    IF ~Loads(w, "expenses")
    THEN Raise(w, "StorageError", "load")
    ELSE Return(w, get_all_expenses(w.expenses))

IOExpenses ==
    {Expense(<<"a">>, a, Jan2024, "groceries") : a \in {1, 2}}

IOBudgets == {Budget(1, 2024, 1, None), Budget(1, 2024, 2, [groceries |-> 1])}

\* the documents a process can find when it starts: each is absent or whole
InitIO ==
    /\ disk \in [{"expenses", "budgets"} -> {"absent", "valid"}]
    /\ expenses \in IF disk.expenses = "absent" THEN {<<>>}
                    ELSE {<<>>} \cup {add_expense(<<>>, e) : e \in IOExpenses}
    /\ budgets \in IF disk.budgets = "absent" THEN {<<>>}
                   ELSE {<<>>} \cup {set_budget(<<>>, b) : b \in IOBudgets}
    /\ last = [op |-> "start"]

\* the documents become what an operation left
Becomes(w) ==
    /\ Len(w.expenses) + Len(w.budgets) <= MaxRecords
    /\ expenses' = w.expenses
    /\ budgets' = w.budgets
    /\ disk' = w.disk

\* a StorageHandler object exists only over documents that exist
Constructed == disk.expenses # "absent" /\ disk.budgets # "absent"

\* StorageHandler(storage_path, budget_path)
Construct(io) ==
    LET r == init_storage(World, io)
    IN /\ Becomes(r.w)
       /\ last' = [op |-> "StorageHandler", io |-> io, raised |-> r.raised]

\* StorageHandler.add_expense(expense), the save ending as io says
IOAddExpense(expense, io) ==
    LET r == storage_add_expense(World, expense, io)
    IN /\ Constructed
       /\ Becomes(r.w)
       /\ last' = [op |-> "Storage.add_expense", expense |-> expense,
                   io |-> io, result |-> r]

\* StorageHandler.set_budget(budget), the save ending as io says
IOSetBudget(budget, io) ==
    LET r == storage_set_budget(World, budget, io)
    IN /\ Constructed
       /\ Becomes(r.w)
       /\ last' = [op |-> "Storage.set_budget", budget |-> budget,
                   io |-> io, result |-> r]

\* StorageHandler.get_budget(month, year)
IOGetBudget(month, year) ==
    LET r == storage_get_budget(World, month, year)
    IN /\ Constructed
       /\ last' = [op |-> "Storage.get_budget", month |-> month,
                   year |-> year, result |-> r]
       /\ UNCHANGED <<expenses, budgets, disk>>

\* StorageHandler.get_all_expenses()
IOGetAllExpenses ==
    LET r == storage_get_all_expenses(World)
    IN /\ Constructed
       /\ last' = [op |-> "Storage.get_all_expenses", result |-> r]
       /\ UNCHANGED <<expenses, budgets, disk>>

NextIO ==
    \/ \E io \in SaveOutcomes(<<>>) : Construct(io)
    \/ \E expense \in IOExpenses :
          \E io \in SaveOutcomes(add_expense(expenses, expense)) :
             IOAddExpense(expense, io)
    \/ \E budget \in IOBudgets :
          \E io \in SaveOutcomes(set_budget(budgets, budget)) :
             IOSetBudget(budget, io)
    \/ IOGetBudget(1, 2024)
    \/ IOGetAllExpenses

SpecIO == InitIO /\ [][NextIO]_vars

\* ------------------------------------------------------------------ main.py
\* --category-limits arguments considered: every string of up to MaxLimitsLen
\* characters, and up to MaxPairs comma-separated pairs
MaxLimitsLen == 5

MaxPairs == 3

Digits == {"1", "2"}

DigitValue(c) == IF c = "1" THEN 1 ELSE 2

\* str.split(sep): the parts of s between the occurrences of sep
RECURSIVE Split(_, _)
Split(s, sep) ==
    IF \A i \in DOMAIN s : s[i] # sep
    THEN <<s>>
    ELSE LET i == CHOOSE k \in DOMAIN s :
                    s[k] = sep /\ \A j \in 1..(k - 1) : s[j] # sep
         IN <<SubSeq(s, 1, i - 1)>> \o Split(SubSeq(s, i + 1, Len(s)), sep)

\* float(amount) on a string of digits and letters: the value, or ValueError
RECURSIVE ParseFloat(_)
ParseFloat(amount) ==
    IF amount = <<>> \/ \E i \in DOMAIN amount : amount[i] \notin Digits
    THEN [raised |-> "ValueError"]
    ELSE IF Len(amount) = 1
    THEN [float |-> DigitValue(amount[1])]
    ELSE [float |-> 10 * ParseFloat(SubSeq(amount, 1, Len(amount) - 1)).float
                     + DigitValue(amount[Len(amount)])]

\* the dict comprehension: a later pair replaces an earlier one of its name
RECURSIVE DictOf(_)
DictOf(parts) ==
    IF parts = <<>> THEN <<>>
    ELSE LET n == Len(parts)
         IN (parts[n][1] :> ParseFloat(parts[n][2]))
                @@ DictOf(SubSeq(parts, 1, n - 1))

parse_category_limits_FirstTwo(limits_str) ==
    IF limits_str = <<>>
    THEN [raised |-> "none", ret |-> <<>>]
    ELSE LET pairs == Split(limits_str, ",")
             parts == [i \in DOMAIN pairs |-> Split(pairs[i], ":")]
         IN IF \E i \in DOMAIN parts :
                  \/ Len(parts[i]) < 2
                  \/ "raised" \in DOMAIN ParseFloat(parts[i][2])
            THEN [raised |-> "ValidationError"]
            ELSE [raised |-> "none", ret |-> DictOf(parts)]

\* main.parse_category_limits: the mapping returned, or the error raised
parse_category_limits(limits_str) ==
    IF limits_str = <<>>
    THEN [raised |-> "none", ret |-> <<>>]
    ELSE LET pairs == Split(limits_str, ",")
             parts == [i \in DOMAIN pairs |-> Split(pairs[i], ":")]
         IN IF \E i \in DOMAIN parts :
                  \/ Len(parts[i]) # 2
                  \/ "raised" \in DOMAIN ParseFloat(parts[i][2])
            THEN [raised |-> "ValidationError"]
            ELSE [raised |-> "none", ret |-> DictOf(parts)]

LimitChars == {"a", "b", ":", ","} \cup Digits

RECURSIVE StringsOfLen(_)
StringsOfLen(n) ==
    IF n = 0 THEN {<<>>}
    ELSE {Append(s, c) : s \in StringsOfLen(n - 1), c \in LimitChars}

PairTexts ==
    {<<>>, <<"a">>, <<"a", ":">>, <<":", "1">>, <<"a", ":", "1">>,
     <<"b", ":", "2">>, <<"a", ":", "b">>, <<"a", ":", "1", "2">>,
     <<"a", ":", "1", ":", "2">>}

RECURSIVE PairLists(_)
PairLists(n) ==
    IF n = 1 THEN PairTexts
    ELSE {s \o <<",">> \o pair : s \in PairLists(n - 1), pair \in PairTexts}

LimitStrings ==
    UNION {StringsOfLen(n) : n \in 0..MaxLimitsLen}
        \cup UNION {PairLists(n) : n \in 1..MaxPairs}

\* a --category-limits argument has been given
InitParse ==
    /\ expenses = <<>>
    /\ budgets = <<>>
    /\ disk = BothValid
    /\ last \in {[op |-> "argv", category_limits |-> s] : s \in LimitStrings}

\* parse_category_limits(args.category_limits)
ParseCategoryLimits ==
    /\ last.op = "argv"
    /\ last' = [op |-> "parse_category_limits",
                limits_str |-> last.category_limits,
                result |-> parse_category_limits(last.category_limits)]
    /\ UNCHANGED <<expenses, budgets, disk>>

NextParse == ParseCategoryLimits

SpecParse == InitParse /\ [][NextParse]_vars

\* ------------------------------------------------------------ a run of main
\* float('nan'), which argparse's type=float accepts
NaN == [nan |-> TRUE]

IsNaN(f) == "nan" \in DOMAIN f

\* the str a one-character or empty sequence of characters stands for
CharsToStr(chars) ==
    CASE Len(chars) = 0 -> ""
      [] Len(chars) = 1 -> chars[1]

\* ExpenseManager.add_expense with the storage's loads and saves.  Ordering
\* Decimal('NaN') against 0 raises decimal.InvalidOperation, which validiate
\* reaches once the description has passed.
manager_add_expense(w, args, io) ==
    IF IsNaN(args.amount)
    THEN IF validiate(Expense(args.description, 1, args.now, "x")) # "ok"
         THEN Raise(w, "ValidationError", "Expense")
         ELSE Raise(w, "InvalidOperation", "Expense")
    ELSE
    LET expense == Expense(args.description, Decimal(Str(args.amount.float)),
                           args.now, args.category)
    IN IF validiate(expense) # "ok"
       THEN Raise(w, validiate(expense), "Expense")
       ELSE
       LET r == storage_add_expense(w, expense, io)
       IN IF r.raised # "none" THEN r
          ELSE IF ~Loads(r.w, "budgets")
          THEN Raise(r.w, "StorageError", "load")
          ELSE Return(r.w,
                      [expense_id |-> r.ret,
                       warning |-> check_budget_warning(r.w.expenses,
                                                        r.w.budgets, expense)])

\* ExpenseManager.set_budget with the storage's load and save; validate
\* orders a NaN amount against 0 once the month has passed
manager_set_budget(w, args, io) ==
    LET limits == IF Truthy(args.category_limits) THEN args.category_limits
                  ELSE <<>>
    IN IF IsNaN(args.amount)
       THEN IF args.month < 1 \/ args.month > 12
            THEN Raise(w, "BudgetError", "Budget")
            ELSE Raise(w, "InvalidOperation", "Budget")
       ELSE
       LET budget == Budget(args.month, args.year,
                            Decimal(Str(args.amount.float)),
                            [k \in DOMAIN limits |->
                                Decimal(Str(limits[k].float))])
       IN IF validate(budget) # "ok"
          THEN Raise(w, validate(budget), "Budget")
          ELSE storage_set_budget(w, budget, io)

\* ExpenseManager.get_category_summary with the storage's load
manager_get_category_summary(w, category, month, year) ==
    IF ~Loads(w, "expenses")
    THEN Raise(w, "StorageError", "load")
    ELSE Return(w, get_category_summary(w.expenses, category, month, year))

\* ExpenseManager.export_to_csv with the storage's load; io is how writing
\* the CSV file ends
manager_export_to_csv(w, io) ==
    IF ~Loads(w, "expenses")
    THEN Raise(w, "StorageError", "load")
    ELSE IF io.kind # "ok"
    THEN Raise(w, "StorageError", "export")
    ELSE Return(w, CsvRows(w.expenses))

\* the dict parse_category_limits returned, its names as str
StrKeys(ret) ==
    [k \in {CharsToStr(n) : n \in DOMAIN ret} |->
        ret[CHOOSE n \in DOMAIN ret : CharsToStr(n) = k]]

\* the body of the try block after the storage was constructed: what the
\* command leaves, raises and prints
run_command(w, args, io) ==
    IF args.command = "add"
    THEN LET r == manager_add_expense(w, args, io)
         IN IF r.raised # "none" THEN r
            ELSE [r EXCEPT !.ret =
                    <<[text |-> "Expense added successfully (ID: )",
                       expense_id |-> r.ret.expense_id]>>
                    \o IF r.ret.warning # None
                       THEN <<[text |-> "Warning: ",
                               warning |-> r.ret.warning]>>
                       ELSE <<>>]
    ELSE IF args.command = "set-budget"
    THEN LET given == args.category_limits # None
                        /\ args.category_limits.some # <<>>
             parsed == parse_category_limits(args.category_limits.some)
         IN IF given /\ parsed.raised # "none"
            THEN Raise(w, parsed.raised, "parse_category_limits")
            ELSE
            LET category_limits == IF given THEN StrKeys(parsed.ret) ELSE None
                r == manager_set_budget(
                        w, [month |-> args.month, year |-> args.year,
                            amount |-> args.amount,
                            category_limits |-> category_limits], io)
            IN IF r.raised # "none" THEN r
               ELSE [r EXCEPT !.ret =
                       <<[text |-> "Budget set successfully for /",
                          month |-> args.month, year |-> args.year]>>]
    ELSE IF args.command = "category-summary"
    THEN LET r == manager_get_category_summary(w, args.category, args.month,
                                               args.year)
         IN IF r.raised # "none" THEN r
            ELSE [r EXCEPT !.ret =
                    <<[text |-> "Total expenses for category '' : $",
                       category |-> args.category,
                       period |-> IF args.month # None /\ args.year # None
                                  THEN [month |-> args.month.some,
                                        year |-> args.year.some]
                                  ELSE [text |-> "(all time)"],
                       total |-> [float |-> r.ret]]>>]
    ELSE IF args.command = "export"
    THEN LET r == manager_export_to_csv(w, io)
         IN IF r.raised # "none" THEN r
            ELSE [r EXCEPT !.ret =
                    <<[text |-> "Expenses exported successfully to ",
                       output |-> args.output]>>]
    ELSE Return(w, <<>>)

except_clause_ExceptionFirst(raised) ==
    [printed |-> <<[text |-> "Unexpected error: ", e |-> raised]>>, exit |-> 1]

\* the except clauses of main: the message printed and the exit status
except_clause(raised) ==
    IF raised = "ValidationError"
    THEN [printed |-> <<[text |-> "Validation Error: ", e |-> raised]>>,
          exit |-> 1]
    ELSE IF raised = "BudgetError"
    THEN [printed |-> <<[text |-> "Budget Error: ", e |-> raised]>>,
          exit |-> 1]
    ELSE IF raised = "StorageError"
    THEN [printed |-> <<[text |-> "Storage Error: ", e |-> raised]>>,
          exit |-> 1]
    ELSE [printed |-> <<[text |-> "Unexpected error: ", e |-> raised]>>,
          exit |-> 1]

\* an except clause ran on what r raised
Caught(r) == [w |-> r.w, raised |-> r.raised] @@ except_clause(r.raised)

\* the command ended: caught, or the end of main with status 0
CommandEnd(r) ==
    IF r.raised # "none"
    THEN Caught(r)
    ELSE [w |-> r.w, raised |-> "none", printed |-> r.ret, exit |-> 0]

\* the try block once StorageHandler() has returned or raised
TryBlock(storage, args, io) ==
    IF storage.raised # "none"
    THEN Caught(storage)
    ELSE CommandEnd(run_command(storage.w, args, io))

\* main() on parsed arguments: io_init is how a write of the construction
\* ends, io how the command's write ends
main(w, args, io_init, io) == TryBlock(init_storage(w, io_init), args, io)

MainFloats == {[float |-> 0], [float |-> 1], NaN}

MainArgs ==
    {[command |-> "add", description |-> d, amount |-> a, category |-> "a",
      now |-> Jan2024] : d \in {<<>>, <<"x">>}, a \in MainFloats}
    \cup {[command |-> "set-budget", month |-> m, year |-> 2024, amount |-> a,
           category_limits |-> l] :
            m \in {1, 13}, a \in {[float |-> 1], NaN},
            l \in {None, Some(<<>>), Some(<<"a">>), Some(<<"a", ":", "1">>),
                   Some(<<"a", ":", "2">>)}}
    \cup {[command |-> "category-summary", category |-> "a", month |-> m,
           year |-> y] : m \in OptionalMonths, y \in OptionalYears}
    \cup {[command |-> "export", output |-> "expenses.csv"]}
    \cup {[command |-> "none"]}

\* one run of the program
Main(args, io_init, io) ==
    LET r == main(World, args, io_init, io)
    IN /\ Becomes(r.w)
       /\ last' = [op |-> "main", args |-> args, io_init |-> io_init,
                   io |-> io, raised |-> r.raised, printed |-> r.printed,
                   exit |-> r.exit]

\* the construction writes only an absent budgets document beside an
\* existing expenses document
InitOutcomes ==
    IF disk.expenses # "absent" /\ disk.budgets = "absent"
    THEN SaveOutcomes(<<>>)
    ELSE {[kind |-> "ok"]}

\* only add, set-budget and export write
CommandOutcomes(args) ==
    IF args.command \in {"add", "set-budget", "export"}
    THEN SaveOutcomes(<<>>)
    ELSE {[kind |-> "ok"]}

NextMain ==
    \E args \in MainArgs :
        \E io_init \in InitOutcomes, io \in CommandOutcomes(args) :
            Main(args, io_init, io)

SpecMain == InitIO /\ [][NextMain]_vars

\* ------------------------------------------------------- validating Budgets
\* budget.validate() on a Budget object
ValidateBudget(budget) ==
    /\ last' = [op |-> "Budget.validate", budget |-> budget,
                raised |-> validate(budget)]
    /\ UNCHANGED <<expenses, budgets, disk>>

ValidateInputs ==
    {Budget(m, 2024, a, l) :
        m \in {0, 1, 12, 13},
        a \in {-1, 0, 1, 2},
        l \in {None, <<>>, [groceries |-> 1], [groceries |-> 2],
               [groceries |-> 3], [groceries |-> 1, utilities |-> 1],
               [groceries |-> 2, utilities |-> 1]}}

NextBudget ==
    \/ \E budget \in ValidateInputs : ValidateBudget(budget)
    \/ \E args \in SetBudgetInputs : ManagerSetBudget(args)

SpecBudget == Init /\ [][NextBudget]_vars

\* ================================================================= claims
\* Quantities the claims speak of, taken from the persisted documents.

RECURSIVE SumOver(_, _)
SumOver(S, f) ==
    IF S = {} THEN 0
    ELSE LET i == CHOOSE x \in S : TRUE IN f[i] + SumOver(S \ {i}, f)

PersistedAmounts == [i \in DOMAIN expenses |-> expenses[i].amount.str]

\* sum of the persisted expenses dated in period p
PersistedMonthlyTotal(p) ==
    SumOver({i \in DOMAIN expenses : expenses[i].date.iso = p}, PersistedAmounts)

\* sum of the persisted expenses of a category dated in period p
PersistedCategoryTotal(category, p) ==
    SumOver({i \in DOMAIN expenses :
                expenses[i].date.iso = p /\ expenses[i].category = category},
            PersistedAmounts)

BudgetRecords(p) ==
    {i \in DOMAIN budgets : budgets[i].month = p.month /\ budgets[i].year = p.year}

\* the budget record the lookup for period p yields
LookedUp(p) == budgets[CHOOSE i \in BudgetRecords(p) : \A j \in BudgetRecords(p) : i <= j]

Added == last.op = "Manager.add_expense" /\ last.raised = "none"

Tokens(warning) == IF warning = None THEN {} ELSE {warning.str[i] : i \in DOMAIN warning.str}

IsTotalToken(t) == t.text = "Total budget of $ exceeded!"
IsCategoryToken(t) == t.text = "Category '' budget of $"

TotalTriggered(p) ==
    BudgetRecords(p) # {} /\ PersistedMonthlyTotal(p) > LookedUp(p).amount.str

CategoryTriggered(category, p) ==
    /\ BudgetRecords(p) # {}
    /\ category \in DOMAIN LookedUp(p).category_limits
    /\ PersistedCategoryTotal(category, p) > LookedUp(p).category_limits[category].str

\* C1: after Manager.add_expense, when a budget exists for the expense's
\* period, the warning holds the total-budget message (with the budget's
\* amount) if and only if the period's persisted total, the new expense
\* included, is strictly greater than the budget amount.
C1_TotalWarning ==
    (Added /\ BudgetRecords(last.args.now) # {}) =>
        LET p == last.args.now
            totals == {t \in Tokens(last.warning) : IsTotalToken(t)}
        IN /\ totals # {} <=> PersistedMonthlyTotal(p) > LookedUp(p).amount.str
           /\ \A t \in totals : t.amount = LookedUp(p).amount.str

\* the total equals the budget amount exactly, two expenses in the period
C1_Witness ==
    /\ Added /\ BudgetRecords(last.args.now) # {}
    /\ Len(expenses) = 2
    /\ PersistedMonthlyTotal(last.args.now) = LookedUp(last.args.now).amount.str
    /\ PersistedMonthlyTotal(last.args.now) > last.args.amount
    /\ \A t \in Tokens(last.warning) : ~IsTotalToken(t)

\* C2: after Manager.add_expense, when a budget exists for the expense's
\* period, the warning holds a category message, naming the category and its
\* limit, if and only if the budget has a limit for the expense's category and
\* the category's persisted total in the period exceeds it; a category without
\* a limit gets no category message.
C2_CategoryWarning ==
    (Added /\ BudgetRecords(last.args.now) # {}) =>
        LET p == last.args.now
            category == last.args.category
            limits == LookedUp(p).category_limits
            messages == {t \in Tokens(last.warning) : IsCategoryToken(t)}
        IN /\ messages # {} <=>
                (/\ category \in DOMAIN limits
                 /\ PersistedCategoryTotal(category, p) > limits[category].str)
           /\ \A t \in messages :
                t.category = category /\ t.limit = limits[category].str

\* the category total equals the limit exactly: no category message
C2_Witness ==
    /\ Added /\ BudgetRecords(last.args.now) # {}
    /\ last.args.category \in DOMAIN LookedUp(last.args.now).category_limits
    /\ PersistedCategoryTotal(last.args.category, last.args.now)
         = LookedUp(last.args.now).category_limits[last.args.category].str
    /\ \A t \in Tokens(last.warning) : ~IsCategoryToken(t)

\* C3: Manager.add_expense returns no warning exactly when neither message was
\* triggered, always so when no budget is persisted for the expense's period;
\* when both are triggered the warning is the total message, one space, the
\* category message.
C3_WarningShape ==
    Added =>
        LET p == last.args.now
            category == last.args.category
        IN /\ last.warning = None <=>
                ~TotalTriggered(p) /\ ~CategoryTriggered(category, p)
           /\ BudgetRecords(p) = {} => last.warning = None
           /\ (TotalTriggered(p) /\ CategoryTriggered(category, p)) =>
                last.warning =
                    [str |-> <<[text |-> "Total budget of $ exceeded!",
                                amount |-> LookedUp(p).amount.str],
                               [text |-> " "],
                               [text |-> "Category '' budget of $",
                                category |-> category,
                                limit |-> LookedUp(p).category_limits[category].str]>>]

\* both messages are triggered by one call
C3_Witness ==
    /\ Added
    /\ TotalTriggered(last.args.now)
    /\ CategoryTriggered(last.args.category, last.args.now)
    /\ Len(last.warning.str) = 3

SameKey(a, b) == a.month = b.month /\ a.year = b.year

BudgetSet ==
    \/ last.op = "Storage.set_budget"
    \/ last.op = "Manager.set_budget" /\ last.raised = "none"

\* the Budget object the last set_budget call persisted
BudgetOfLast ==
    IF last.op = "Storage.set_budget" THEN last.budget
    ELSE Budget(last.args.month, last.args.year, last.args.amount,
                IF last.args.category_limits = None THEN <<>>
                ELSE last.args.category_limits)

\* C4: the budgets document never holds two records with the same (month,
\* year), and after a set_budget call the one record of its key holds the
\* amount and category limits of that call.
C4_Upsert ==
    /\ \A i, j \in DOMAIN budgets : SameKey(budgets[i], budgets[j]) => i = j
    /\ BudgetSet =>
         \A i \in DOMAIN budgets :
            SameKey(budgets[i], BudgetOfLast) =>
                /\ budgets[i].amount.str = BudgetOfLast.amount
                /\ DOMAIN budgets[i].category_limits
                     = (IF BudgetOfLast.category_limits = None THEN {}
                        ELSE DOMAIN BudgetOfLast.category_limits)
                /\ \A k \in DOMAIN budgets[i].category_limits :
                     budgets[i].category_limits[k].str
                       = BudgetOfLast.category_limits[k]

\* C5: get_budget(m, y) right after set_budget(b) with b.month = m and
\* b.year = y returns a Budget with b's amount and b's category_limits.
C5_BudgetRoundTrip ==
    BudgetSet =>
        LET b == BudgetOfLast
            got == get_budget(budgets, b.month, b.year)
        IN /\ got # None
           /\ got.amount = b.amount
           /\ got.category_limits = b.category_limits

StrictlyIncreasingIds(doc) ==
    \A i, j \in DOMAIN doc : i < j => doc[i].id < doc[j].id

MaxPersistedId(doc) ==
    IF doc = <<>> THEN 0
    ELSE LET i == CHOOSE x \in DOMAIN doc : \A y \in DOMAIN doc : doc[y].id <= doc[x].id
         IN doc[i].id

ReturnedId == IF last.op = "Storage.add_expense" THEN last.ret ELSE last.expense_id

\* C6: every call that adds an expense returns 1 + the greatest id persisted
\* before the call (1 on an empty collection), and the persisted ids stay
\* strictly increasing in file order.
C6_NewId ==
    [][expenses' # expenses =>
          /\ ReturnedId' = 1 + MaxPersistedId(expenses)
          /\ expenses'[Len(expenses')].id = ReturnedId'
          /\ StrictlyIncreasingIds(expenses')]_vars

\* a second expense was added and got id 2
C6_Witness ==
    /\ last.op = "Storage.add_expense"
    /\ Len(expenses) = 2
    /\ last.ret = 2
    /\ expenses[1].id = 1 /\ expenses[2].id = 2

IsPrefix(s, t) == Len(s) <= Len(t) /\ SubSeq(t, 1, Len(s)) = s

AddOps == {"Storage.add_expense", "Manager.add_expense"}

ValidBudgetRecord(b) ==
    /\ 1 <= b.month /\ b.month <= 12
    /\ b.amount.str > 0
    /\ SumOver(DOMAIN b.category_limits,
               [k \in DOMAIN b.category_limits |-> b.category_limits[k].str])
         <= b.amount.str

ValidExpenseRecord(e) ==
    /\ \E i \in DOMAIN e.description : e.description[i] \notin Whitespace
    /\ Len(e.description) <= 100
    /\ e.amount.str > 0
    /\ e.category # ""

\* C9 as stated: every persisted budget record and every persisted expense
\* record is valid, whichever of the Manager and Storage calls wrote it.
C9_NoInvalidEntity ==
    /\ \A i \in DOMAIN budgets : ValidBudgetRecord(budgets[i])
    /\ \A i \in DOMAIN expenses : ValidExpenseRecord(expenses[i])

\* C9 amended: every persisted expense record is valid, and every budget
\* record that Manager.set_budget writes is valid.
C9_ValidatedWrites ==
    /\ [](\A i \in DOMAIN expenses : ValidExpenseRecord(expenses[i]))
    /\ [][last'.op = "Manager.set_budget" =>
            \A i \in DOMAIN budgets' :
                (i \notin DOMAIN budgets \/ budgets'[i] # budgets[i]) =>
                    ValidBudgetRecord(budgets'[i])]_vars

\* Manager.set_budget wrote a budget whose limits sum to exactly its amount,
\* with a 100-character expense persisted
C9_Witness ==
    /\ last.op = "Manager.set_budget" /\ last.raised = "none"
    /\ budgets[Len(budgets)].category_limits = [groceries |-> [str |-> 2]]
    /\ budgets[Len(budgets)].amount.str = 2
    /\ \E i \in DOMAIN expenses : Len(expenses[i].description) = 100

IsBlank(description) ==
    \A i \in DOMAIN description : description[i] \in Whitespace

\* C10: constructing an Expense raises ValidationError exactly when the
\* description is empty or all whitespace, or longer than 100 characters, or
\* the amount is <= 0, or the category is empty; a constructed Expense has
\* amount > 0 and a description of 1 to 100 characters.
C10_ExpenseValidation ==
    last.op = "Expense" =>
        LET a == last.args
        IN /\ last.raised \in {"ValidationError", "ok"}
           /\ last.raised = "ValidationError" <=>
                \/ IsBlank(a.description)
                \/ Len(a.description) > 100
                \/ a.amount <= 0
                \/ a.category = ""
           /\ last.raised = "ok" =>
                /\ a.amount > 0
                /\ 1 <= Len(a.description) /\ Len(a.description) <= 100

\* a description of exactly 100 characters is accepted
C10_Witness ==
    /\ last.op = "Expense"
    /\ Len(last.args.description) = 100
    /\ last.raised = "ok"

\* sum of the category limits of a Budget object; 0 when there are none
LimitSum(b) ==
    IF b.category_limits = None THEN 0
    ELSE SumOver(DOMAIN b.category_limits, b.category_limits)

InvalidBudget(b) ==
    \/ b.month < 1 \/ b.month > 12
    \/ b.amount <= 0
    \/ LimitSum(b) > b.amount

\* C11: Budget.validate raises BudgetError exactly when the month is outside
\* [1, 12], the amount is <= 0 or the category limits sum to more than the
\* amount (a sum equal to the amount, absent limits and empty limits pass);
\* Manager.set_budget raises BudgetError on exactly those budgets and then
\* leaves the budgets document as it was.
C11_BudgetValidation ==
    /\ [](last.op = "Budget.validate" =>
            /\ last.raised \in {"BudgetError", "ok"}
            /\ last.raised = "BudgetError" <=> InvalidBudget(last.budget))
    /\ [][last'.op = "Manager.set_budget" =>
            /\ last'.raised \in {"BudgetError", "none"}
            /\ last'.raised = "BudgetError" <=> InvalidBudget(last'.args)
            /\ last'.raised = "BudgetError" => budgets' = budgets]_vars

\* Manager.set_budget refused limits above the amount with a budget persisted
C11_Witness ==
    /\ last.op = "Manager.set_budget"
    /\ last.raised = "BudgetError"
    /\ 1 <= last.args.month /\ last.args.month <= 12 /\ last.args.amount > 0
    /\ Len(budgets) = 2

\* indices of the persisted expenses of a category, in the month when one is
\* given and in the year when one is given
SummaryMatches(category, month, year) ==
    {i \in DOMAIN expenses :
        /\ expenses[i].category = category
        /\ (month # None => expenses[i].date.iso.month = month.some)
        /\ (year # None => expenses[i].date.iso.year = year.some)}

\* C14: Manager.get_category_summary returns the sum of the amounts of exactly
\* the persisted expenses of the category that match the month when given and
\* the year when given (a month alone matches in every year), 0 when none
\* matches, and changes neither document.
C14_CategorySummary ==
    /\ [](last.op = "Manager.get_category_summary" =>
            last.ret = SumOver(SummaryMatches(last.category, last.month,
                                              last.year), PersistedAmounts))
    /\ [][last'.op = "Manager.get_category_summary" =>
            expenses' = expenses /\ budgets' = budgets]_vars

\* a month given without a year summed expenses of that month in two years,
\* leaving out another category's expense
C14_Witness ==
    /\ last.op = "Manager.get_category_summary"
    /\ last.month # None /\ last.year = None
    /\ \E i, j, k \in DOMAIN expenses :
          /\ expenses[i].date.iso.year # expenses[j].date.iso.year
          /\ {i, j} = SummaryMatches(last.category, last.month, last.year)
          /\ expenses[k].category # last.category
          /\ last.ret = PersistedAmounts[i] + PersistedAmounts[j]

\* positions around the pairs of s: 0, every comma, and one past the end
Cuts(s) == {0, Len(s) + 1} \cup {i \in DOMAIN s : s[i] = ","}

\* the pairs of s: the text between one cut and the next
PairsOf(s) ==
    [i \in Cuts(s) \ {Len(s) + 1} |->
        LET j == CHOOSE k \in Cuts(s) :
                    k > i /\ \A m \in Cuts(s) : m > i => k <= m
        IN SubSeq(s, i + 1, j - 1)]

ColonCount(pair) == Cardinality({k \in DOMAIN pair : pair[k] = ":"})

NameOf(pair) ==
    SubSeq(pair, 1, (CHOOSE k \in DOMAIN pair : pair[k] = ":") - 1)

AmountOf(pair) ==
    SubSeq(pair, (CHOOSE k \in DOMAIN pair : pair[k] = ":") + 1, Len(pair))

Numeric(text) == text # <<>> /\ \A k \in DOMAIN text : text[k] \in Digits

NumberOf(text) ==
    SumOver(DOMAIN text,
            [k \in DOMAIN text |-> DigitValue(text[k]) * 10 ^ (Len(text) - k)])

Parsed == last.result

\* C16: parse_category_limits raises ValidationError whenever some pair does
\* not contain exactly one colon; when every pair is name:amount with a
\* numeric amount it returns the mapping of each name to its amount
\* ("a:1,b:2" gives {a: 1.0, b: 2.0}); the empty string gives the empty mapping.
C16_ParseCategoryLimits ==
    last.op = "parse_category_limits" =>
        LET s == last.limits_str
            pairs == PairsOf(s)
        IN /\ s = <<>> => Parsed.raised = "none" /\ Parsed.ret = <<>>
           /\ (s # <<>> /\ \E i \in DOMAIN pairs : ColonCount(pairs[i]) # 1)
                => Parsed.raised = "ValidationError"
           /\ (s # <<>> /\ \A i \in DOMAIN pairs :
                    ColonCount(pairs[i]) = 1 /\ Numeric(AmountOf(pairs[i])))
                => /\ Parsed.raised = "none"
                   /\ DOMAIN Parsed.ret =
                        {NameOf(pairs[i]) : i \in DOMAIN pairs}
                   /\ \A i \in DOMAIN pairs :
                        (\A j \in DOMAIN pairs :
                            j > i => NameOf(pairs[j]) # NameOf(pairs[i]))
                        => Parsed.ret[NameOf(pairs[i])] =
                              [float |-> NumberOf(AmountOf(pairs[i]))]
           /\ s = <<"a", ":", "1", ",", "b", ":", "2">>
                => Parsed.ret = (<<"a">> :> [float |-> 1])
                                    @@ (<<"b">> :> [float |-> 2])

\* "a:1,b:2" was parsed into a mapping of two names
C16_Witness ==
    /\ last.op = "parse_category_limits"
    /\ last.limits_str = <<"a", ":", "1", ",", "b", ":", "2">>
    /\ Parsed.raised = "none"
    /\ DOMAIN Parsed.ret = {<<"a">>, <<"b">>}

\* C12: constructing the storage with either document absent succeeds and
\* leaves both documents existing, each absent one created holding the empty
\* list; with both present it changes nothing; constructing twice leaves what
\* constructing once leaves.  (Only constructions whose own writes succeed
\* are considered.)
C12_Initialization ==
    [][(last'.op = "StorageHandler" /\ last'.io.kind = "ok") =>
        /\ ~Constructed =>
              /\ last'.raised = "none"
              /\ disk' = BothValid
              /\ disk.expenses = "absent" => expenses' = <<>>
              /\ disk.budgets = "absent" => budgets' = <<>>
              /\ disk.expenses # "absent" => expenses' = expenses
              /\ disk.budgets # "absent" => budgets' = budgets
        /\ Constructed =>
              /\ last'.raised = "none"
              /\ UNCHANGED <<expenses, budgets, disk>>
        /\ init_storage([expenses |-> expenses', budgets |-> budgets',
                         disk |-> disk'], last'.io).w
              = [expenses |-> expenses', budgets |-> budgets', disk |-> disk']
      ]_vars

SavingFailed ==
    /\ last.op \in {"Storage.add_expense", "Storage.set_budget"}
    /\ last.result.raised = "StorageError"
    /\ last.result.at = "save"

\* C13: when Storage.add_expense or Storage.set_budget fails while saving,
\* the document is afterwards the whole document it was before the call,
\* never a truncated, empty or partial one.
C13_FailedWriteKeepsDocument ==
    [][SavingFailed' =>
        /\ expenses' = expenses
        /\ budgets' = budgets
        /\ disk' = disk]_vars

Confirmations ==
    {"Expense added successfully (ID: )", "Budget set successfully for /",
     "Expenses exported successfully to "}

\* C15: a run of main prints exactly one message, prefixed "Validation Error: ",
\* "Budget Error: " or "Storage Error: ", and exits with status 1 when the
\* storage construction or the command raised the error of that name; any
\* other exception gives one "Unexpected error" message and status 1; the
\* status is 1 only if something was raised; a success confirmation is
\* printed only if nothing was raised.
C15_ExitBehaviour ==
    last.op = "main" =>
        /\ last.raised = "ValidationError" =>
              /\ Len(last.printed) = 1
              /\ last.printed[1].text = "Validation Error: "
              /\ last.exit = 1
        /\ last.raised = "BudgetError" =>
              /\ Len(last.printed) = 1
              /\ last.printed[1].text = "Budget Error: "
              /\ last.exit = 1
        /\ last.raised = "StorageError" =>
              /\ Len(last.printed) = 1
              /\ last.printed[1].text = "Storage Error: "
              /\ last.exit = 1
        /\ last.raised \notin {"ValidationError", "BudgetError",
                               "StorageError", "none"} =>
              /\ Len(last.printed) = 1
              /\ last.printed[1].text = "Unexpected error: "
              /\ last.exit = 1
        /\ last.exit = 1 => last.raised # "none"
        /\ last.exit \in {0, 1}
        /\ (\E i \in DOMAIN last.printed : last.printed[i].text \in Confirmations)
              => last.raised = "none"

\* set-budget with limits above the amount ended in a Budget Error after
\* the construction had succeeded
C15_Witness ==
    /\ last.op = "main"
    /\ last.args.command = "set-budget"
    /\ last.raised = "BudgetError"
    /\ last.args.month = 1
    /\ last.exit = 1
    /\ disk = BothValid

====
